---- MODULE Spec2Model ----
(***************************************************************************)
(* Model of ligolo-ng:                                                     *)
(*   - package netstack (src/unnamed/part_000): TunConn, NetStack, the     *)
(*     TCP/UDP forwarder callbacks and SetConnPool;                        *)
(*   - the agent (src/cmd/agent/main.go): handleConn and the listener      *)
(*     registry.                                                           *)
(* The ConnPool, its consumer, neterror.HostResponded, the wire codec and  *)
(* relay.StartRelay are not part of the sources at hand; they are modelled *)
(* from the written specification.                                         *)
(***************************************************************************)
EXTENDS Integers, Sequences, FiniteSets, TLC

(* ---------------------------------------------------------------------- *)
(* Bounds                                                                  *)
(* ---------------------------------------------------------------------- *)
NumReqs == 2
NumPools == 2
NumSwappers == 1

NumConnSess == 2
MaxRelayBytes == 1
NumLisSess == 2
MaxAccepts == 1
NumSockSess == 2
NumCloseSess == 1
NumSess == 2
MaxTerminates == 3

Reqs == 1..NumReqs
Pools == 1..NumPools
Swappers == 1..NumSwappers

(* the nil *ConnPool *)
NilPool == 0

(* gvisor transport protocol numbers compared by IsTCP / IsUDP / IsICMP *)
TCPProtocolNumber == 6
UDPProtocolNumber == 17
ICMPProtocolNumber4 == 1

NoHolder == <<>>

ConnSess == 1..NumConnSess
LisSess == 1..NumLisSess
SockSess == 1..NumSockSess
CloseSess == 1..NumCloseSess
Sess == 1..NumSess

(* int32 *)
MaxInt32 == 2147483647

VARIABLES
  (* ---- package netstack ---- *)
  pool,       \* NetStack.pool: the current pool pointer (NilPool or a pool)
  mu,         \* NetStack.Mutex: the task holding it, or NoHolder
  closed,     \* ConnPool closed flag, per pool
  queue,      \* ConnPool FIFO of TunConn, per pool
  cbPc,       \* position of the forwarder callback of each request
  cbProto,    \* which forwarder (TCP or UDP) fired for the request
  cbSeen,     \* history: pool pointer the callback's nil/closed check read
  cbAdded,    \* history: pool pointer the callback called Add on
  cbAddOk,    \* history: whether that Add succeeded
  swPc,       \* position of each SetConnPool call
  swArg,      \* connPool argument of each SetConnPool call
  swOld,      \* history: the pool pointer a SetConnPool call replaced
  completes,  \* per forwarder-request: the reset values Complete was called with
  (* ---- the agent process ---- *)
  alive,      \* the agent process runs (FALSE after logrus.Fatal / os.Exit)
  transportUp,\* the multiplexed transport is up
  (* ---- handleConn, MessageConnectRequest ---- *)
  cPc,        \* position of the handler of each connect session
  dialOutcome,\* what DialContext returned
  connectPacket, \* protocol.ConnectResponsePacket of the handler
  cWire,      \* envelopes and relayed bytes the agent wrote on the session
  cRelay,     \* relay.StartRelay(targetConn, conn) was called
  (* ---- the listener registry (package-level variables) ---- *)
  listenerConntrack, \* map[int32]net.Conn
  listenerMap,       \* map[int32]net.Listener
  connTrackID,       \* int32
  listenerID,        \* int32
  (* ---- handleConn, MessageListenerRequest ---- *)
  lPc,        \* position of the handler of each listener session
  lResp,      \* listenerResponse.ListenerID of the handler
  lTmp,       \* the handler's register: the value loaded by listenerID++
  lWire,      \* envelopes the agent wrote on the listener session
  lisState,   \* the net.Listener of the session: "none", "open", "closed"
  (* ---- Listener.ListenAndServe, one goroutine per listener ---- *)
  aPc,        \* position of the accept loop
  aConn,      \* number of sockets the loop accepted; conn is <<l, aConn[l]>>
  aTmp,       \* the loop's register: value loaded by connTrackID++, then
              \* the value evaluated for the send on connTrackChan
  parkedAs,   \* history: the key each accepted socket was stored under
  (* ---- handleConn, MessageListenerSockRequest ---- *)
  sPc,        \* position of the handler of each sock session
  sArg,       \* sockRequest.SockID
  sErr,       \* sockResponse.Err
  sBindSeen,  \* history: a bind response for SockID was on the wire at lookup
  relays,     \* number of relay.StartRelay calls per accepted socket
  (* ---- handleConn, MessageListenerCloseRequest ---- *)
  kPc,        \* position of the handler of each close session
  kArg,       \* closeRequest.ListenerID
  kErr,       \* listenerResponse.Err
  (* ---- handleConn: the decoder and the switch on the envelope type ---- *)
  dPc,        \* position of handleConn on each inbound session
  dType,      \* decoder.Envelope.Type of the session's request
  dWire,      \* envelopes written by the HostPing and Info handlers
  (* ---- calls of TunConn.Terminate ---- *)
  tCalls,     \* number of Terminate calls made
  tConn,      \* receiver of the last Terminate call
  tReset      \* argument of the last Terminate call

netVars == <<pool, mu, closed, queue, cbPc, cbProto, cbSeen, cbAdded, cbAddOk,
             swPc, swArg, swOld, completes>>

connVars == <<cPc, dialOutcome, connectPacket, cWire, cRelay>>

procVars == <<alive, transportUp>>

regVars == <<listenerConntrack, listenerMap, connTrackID, listenerID>>

lsVars == <<lPc, lResp, lTmp, lWire, lisState>>

acVars == <<aPc, aConn, aTmp, parkedAs>>

skVars == <<sPc, sArg, sErr, sBindSeen, relays>>

clVars == <<kPc, kArg, kErr>>

lisVars == <<regVars, lsVars, acVars, skVars, clVars>>

dispVars == <<dPc, dType, dWire>>

agentVars == <<procVars, connVars, lisVars, dispVars>>

termVars == <<tCalls, tConn, tReset>>

vars == <<netVars, agentVars, termVars>>

(* ---------------------------------------------------------------------- *)
(* TunConn                                                                 *)
(* ---------------------------------------------------------------------- *)
TunConn(proto, req) == [Protocol |-> proto, Handler |-> req]

IsTCP(t) == t.Protocol = TCPProtocolNumber

IsUDP(t) == t.Protocol = UDPProtocolNumber

IsICMP(t) == t.Protocol = ICMPProtocolNumber4

(* tcp.ForwarderRequest.Complete(reset), recorded per request *)
Complete(comp, req, reset) == [comp EXCEPT ![req] = Append(@, reset)]

(* mutation of Terminate: the request is completed whatever the kind *)
TerminateAnyKind(comp, t, reset) == Complete(comp, t.Handler, reset)

(* TunConn.Terminate(reset): completes the forwarder-request of a TCP      *)
(* tun-connection, does nothing for the other kinds.                       *)
Terminate(comp, t, reset) ==
  IF IsTCP(t) THEN Complete(comp, t.Handler, reset) ELSE comp

(* ---------------------------------------------------------------------- *)
(* ConnPool                                                                *)
(* ---------------------------------------------------------------------- *)
Closed(p) == closed[p]

(* Add returns ClosedPool iff the flag is set, else enqueues *)
AddFails(p) == closed[p]

RECURSIVE DrainAll(_, _)
DrainAll(q, comp) ==
  IF q = <<>> THEN comp
  ELSE DrainAll(Tail(q), Terminate(comp, Head(q), TRUE))

(* Close: set the flag, drain the queue terminating every item with        *)
(* reset=true.  Idempotent.                                                *)
PoolClose(p) ==
  /\ ~closed[p]
  /\ closed' = [closed EXCEPT ![p] = TRUE]
  /\ completes' = DrainAll(queue[p], completes)
  /\ queue' = [queue EXCEPT ![p] = <<>>]
  /\ UNCHANGED <<pool, mu, cbPc, cbProto, cbSeen, cbAdded, cbAddOk,
                 swPc, swArg, swOld,
                 agentVars, termVars>>

(* The consumer: Next, then accept (Complete(false)) or Terminate(reset)   *)
ConsumerNext(p, reset) ==
  /\ queue[p] # <<>>
  /\ queue' = [queue EXCEPT ![p] = Tail(@)]
  /\ completes' = Terminate(completes, Head(queue[p]), reset)
  /\ UNCHANGED <<pool, mu, closed, cbPc, cbProto, cbSeen, cbAdded, cbAddOk,
                 swPc, swArg, swOld,
                 agentVars, termVars>>

(* ---------------------------------------------------------------------- *)
(* NetStack                                                                *)
(* ---------------------------------------------------------------------- *)
Lock(task) == mu = NoHolder /\ mu' = task

Unlock(task) == mu = task /\ mu' = NoHolder

CbTask(r) == <<"cb", r>>

SwTask(s) == <<"sw", s>>

(* the stack invokes the TCP or the UDP forwarder callback for a new flow; *)
(* the callback builds its TCPConn / UDPConn and takes the mutex: s.Lock() *)
CbLock(r, proto) ==
  /\ cbPc[r] = "idle"
  /\ Lock(CbTask(r))
  /\ cbProto' = [cbProto EXCEPT ![r] = proto]
  /\ cbPc' = [cbPc EXCEPT ![r] = "check"]
  /\ UNCHANGED <<pool, closed, queue, cbSeen, cbAdded, cbAddOk,
                 swPc, swArg, swOld, completes,
                 agentVars, termVars>>

(* mutation of CbCheck: only the nil pool is dropped *)
CbCheckNilOnly(r) ==
  /\ cbPc[r] = "check"
  /\ cbSeen' = [cbSeen EXCEPT ![r] = pool]
  /\ cbPc' = [cbPc EXCEPT ![r] = IF pool = NilPool THEN "unlock" ELSE "add"]
  /\ UNCHANGED <<pool, mu, closed, queue, cbProto, cbAdded, cbAddOk,
                 swPc, swArg, swOld, completes,
                 agentVars, termVars>>

(* if s.pool == nil || s.pool.Closed() { return } *)
CbCheck(r) ==
  /\ cbPc[r] = "check"
  /\ cbSeen' = [cbSeen EXCEPT ![r] = pool]
  /\ cbPc' = [cbPc EXCEPT ![r] =
                IF pool = NilPool \/ Closed(pool) THEN "unlock" ELSE "add"]
  /\ UNCHANGED <<pool, mu, closed, queue, cbProto, cbAdded, cbAddOk,
                 swPc, swArg, swOld, completes,
                 agentVars, termVars>>

(* if err := s.pool.Add(TunConn{...}); err != nil { logrus.Error(err) } *)
CbAdd(r) ==
  /\ cbPc[r] = "add"
  /\ pool # NilPool
  /\ cbAdded' = [cbAdded EXCEPT ![r] = pool]
  /\ IF AddFails(pool)
       THEN /\ cbAddOk' = [cbAddOk EXCEPT ![r] = FALSE]
            /\ UNCHANGED queue
       ELSE /\ cbAddOk' = [cbAddOk EXCEPT ![r] = TRUE]
            /\ queue' = [queue EXCEPT ![pool] = Append(@, TunConn(cbProto[r], r))]
  /\ cbPc' = [cbPc EXCEPT ![r] = "unlock"]
  /\ UNCHANGED <<pool, mu, closed, cbProto, cbSeen,
                 swPc, swArg, swOld, completes,
                 agentVars, termVars>>

(* mutation of CbUnlock: the callback returns with the mutex still held *)
CbReturnLocked(r) ==
  /\ cbPc[r] = "unlock"
  /\ cbPc' = [cbPc EXCEPT ![r] = "done"]
  /\ UNCHANGED <<pool, mu, closed, queue, cbProto, cbSeen, cbAdded, cbAddOk,
                 swPc, swArg, swOld, completes,
                 agentVars, termVars>>

(* defer s.Unlock() *)
CbUnlock(r) ==
  /\ cbPc[r] = "unlock"
  /\ Unlock(CbTask(r))
  /\ cbPc' = [cbPc EXCEPT ![r] = "done"]
  /\ UNCHANGED <<pool, closed, queue, cbProto, cbSeen, cbAdded, cbAddOk,
                 swPc, swArg, swOld, completes,
                 agentVars, termVars>>

(* mutation of SetConnPoolLock: the pool pointer is written without the mutex *)
SetConnPoolLockNoMutex(s, p) ==
  /\ swPc[s] = "idle"
  /\ swArg' = [swArg EXCEPT ![s] = p]
  /\ swPc' = [swPc EXCEPT ![s] = "assign"]
  /\ UNCHANGED <<pool, mu, closed, queue, cbPc, cbProto, cbSeen, cbAdded,
                 cbAddOk, swOld, completes,
                 agentVars, termVars>>

(* a call SetConnPool(connPool) takes the mutex: s.Lock() *)
SetConnPoolLock(s, p) ==
  /\ swPc[s] = "idle"
  /\ Lock(SwTask(s))
  /\ swArg' = [swArg EXCEPT ![s] = p]
  /\ swPc' = [swPc EXCEPT ![s] = "assign"]
  /\ UNCHANGED <<pool, closed, queue, cbPc, cbProto, cbSeen, cbAdded,
                 cbAddOk, swOld, completes,
                 agentVars, termVars>>

(* s.pool = connPool *)
SetConnPoolAssign(s) ==
  /\ swPc[s] = "assign"
  /\ swOld' = [swOld EXCEPT ![s] = pool]
  /\ pool' = swArg[s]
  /\ swPc' = [swPc EXCEPT ![s] = "unlock"]
  /\ UNCHANGED <<mu, closed, queue, cbPc, cbProto, cbSeen, cbAdded,
                 cbAddOk, swArg, completes,
                 agentVars, termVars>>

(* s.Unlock() *)
SetConnPoolUnlock(s) ==
  /\ swPc[s] = "unlock"
  /\ Unlock(SwTask(s))
  /\ swPc' = [swPc EXCEPT ![s] = "done"]
  /\ UNCHANGED <<pool, closed, queue, cbPc, cbProto, cbSeen, cbAdded,
                 cbAddOk, swArg, swOld, completes,
                 agentVars, termVars>>

NetInit ==
  /\ pool \in {NilPool, 1}
  /\ mu = NoHolder
  /\ closed = [p \in Pools |-> FALSE]
  /\ queue = [p \in Pools |-> <<>>]
  /\ cbPc = [r \in Reqs |-> "idle"]
  /\ cbProto = [r \in Reqs |-> 0]
  /\ cbSeen = [r \in Reqs |-> -1]
  /\ cbAdded = [r \in Reqs |-> NilPool]
  /\ cbAddOk = [r \in Reqs |-> FALSE]
  /\ swPc = [s \in Swappers |-> "idle"]
  /\ swArg = [s \in Swappers |-> NilPool]
  /\ swOld = [s \in Swappers |-> NilPool]
  /\ completes = [r \in Reqs |-> <<>>]

NetNext ==
  \/ \E r \in Reqs : \E proto \in {TCPProtocolNumber, UDPProtocolNumber} : CbLock(r, proto)
  \/ \E r \in Reqs : CbCheck(r)
  \/ \E r \in Reqs : CbAdd(r)
  \/ \E r \in Reqs : CbUnlock(r)
  \/ \E s \in Swappers : \E p \in {NilPool} \cup Pools : SetConnPoolLock(s, p)
  \/ \E s \in Swappers : SetConnPoolAssign(s)
  \/ \E s \in Swappers : SetConnPoolUnlock(s)
  \/ \E p \in Pools : PoolClose(p)
  \/ \E p \in Pools : \E reset \in BOOLEAN : ConsumerNext(p, reset)

(* ---------------------------------------------------------------------- *)
(* The agent: process and transport                                        *)
(* ---------------------------------------------------------------------- *)
ProcInit ==
  /\ alive = TRUE
  /\ transportUp = TRUE

(* the TLS connection under the multiplexer is lost *)
TransportLost ==
  /\ alive
  /\ transportUp
  /\ transportUp' = FALSE
  /\ UNCHANGED <<alive, connVars, netVars, lisVars, dispVars, termVars>>

(* main: yamuxConn.Accept() fails once the transport is gone, main logs    *)
(* the error and returns, which ends the process and all its goroutines   *)
MainExit ==
  /\ alive
  /\ ~transportUp
  /\ alive' = FALSE
  /\ UNCHANGED <<transportUp, connVars, netVars, lisVars, dispVars, termVars>>

(* ---------------------------------------------------------------------- *)
(* handleConn: case protocol.MessageConnectRequest                         *)
(* ---------------------------------------------------------------------- *)
Errnos == {"ECONNREFUSED", "EHOSTUNREACH", "ENETUNREACH", "ECONNRESET",
           "ETIMEDOUT", "EACCES"}

(* neterror.HostResponded *)
HostResponded(serr) ==
  serr \in {"ECONNREFUSED", "EHOSTUNREACH", "ENETUNREACH", "ECONNRESET"}

(* results of d.DialContext: a socket, an error wrapping a syscall.Errno,  *)
(* or an error that wraps none (the 5 second context deadline)             *)
NoErrno == "none"

DialOk == [err |-> FALSE, errno |-> NoErrno]

DialOutcomes ==
  {DialOk} \cup {[err |-> TRUE, errno |-> e] : e \in Errnos \cup {NoErrno}}

(* errors.As(err, &serr) *)
ErrorsAs(outcome) == outcome.errno # NoErrno

(* mutation of ConnectResponseOf: Reset is set for every syscall errno *)
ConnectResponseResetAnyErrno(outcome) ==
  IF outcome.err
    THEN [Established |-> FALSE, Reset |-> ErrorsAs(outcome)]
    ELSE [Established |-> TRUE, Reset |-> FALSE]

(* the connectPacket built from the dial result *)
ConnectResponseOf(outcome) ==
  IF outcome.err
    THEN [Established |-> FALSE,
          Reset |-> ErrorsAs(outcome) /\ HostResponded(outcome.errno)]
    ELSE [Established |-> TRUE, Reset |-> FALSE]

ZeroConnectPacket == [Established |-> FALSE, Reset |-> FALSE]

ConnInit ==
  /\ cPc = [s \in ConnSess |-> "accept"]
  /\ dialOutcome = [s \in ConnSess |-> DialOk]
  /\ connectPacket = [s \in ConnSess |-> ZeroConnectPacket]
  /\ cWire = [s \in ConnSess |-> <<>>]
  /\ cRelay = [s \in ConnSess |-> FALSE]

(* go handleConn(conn); decoder.Decode() yields a ConnectRequestPacket *)
ConnDecode(s) ==
  /\ alive /\ transportUp
  /\ cPc[s] = "accept"
  /\ cPc' = [cPc EXCEPT ![s] = "dial"]
  /\ UNCHANGED <<dialOutcome, connectPacket, cWire, cRelay, procVars, netVars, lisVars, dispVars, termVars>>

(* d.DialContext(ctx, network, ...) returns; connectPacket is filled in *)
ConnDial(s, outcome) ==
  /\ alive
  /\ cPc[s] = "dial"
  /\ dialOutcome' = [dialOutcome EXCEPT ![s] = outcome]
  /\ connectPacket' = [connectPacket EXCEPT ![s] = ConnectResponseOf(outcome)]
  /\ cPc' = [cPc EXCEPT ![s] = "respond"]
  /\ UNCHANGED <<cWire, cRelay, procVars, netVars, lisVars, dispVars, termVars>>

(* mutation of ConnRespond: the relay is started whatever the response says *)
ConnRespondAlwaysRelay(s) ==
  /\ alive
  /\ cPc[s] = "respond"
  /\ IF transportUp
       THEN /\ cWire' = [cWire EXCEPT ![s] =
                 Append(@, [Type |-> "MessageConnectResponse",
                            Payload |-> connectPacket[s]])]
            /\ cPc' = [cPc EXCEPT ![s] = "relay"]
            /\ UNCHANGED alive
       ELSE /\ alive' = FALSE
            /\ UNCHANGED <<cWire, cPc>>
  /\ UNCHANGED <<dialOutcome, connectPacket, cRelay, transportUp, netVars, lisVars, dispVars, termVars>>

(* encoder.Encode(ConnectResponse), logrus.Fatal when it fails; then       *)
(* if connectPacket.Established { relay.StartRelay(...) }                  *)
ConnRespond(s) ==
  /\ alive
  /\ cPc[s] = "respond"
  /\ IF transportUp
       THEN /\ cWire' = [cWire EXCEPT ![s] =
                 Append(@, [Type |-> "MessageConnectResponse",
                            Payload |-> connectPacket[s]])]
            /\ cPc' = [cPc EXCEPT ![s] =
                 IF connectPacket[s].Established THEN "relay" ELSE "done"]
            /\ UNCHANGED alive
       ELSE /\ alive' = FALSE
            /\ UNCHANGED <<cWire, cPc>>
  /\ UNCHANGED <<dialOutcome, connectPacket, cRelay, transportUp, netVars, lisVars, dispVars, termVars>>

(* relay.StartRelay(targetConn, conn) *)
ConnStartRelay(s) ==
  /\ alive
  /\ cPc[s] = "relay"
  /\ ~cRelay[s]
  /\ cRelay' = [cRelay EXCEPT ![s] = TRUE]
  /\ UNCHANGED <<cPc, dialOutcome, connectPacket, cWire, procVars, netVars, lisVars, dispVars, termVars>>

RelayedBytes(w) == Cardinality({i \in 1..Len(w) : w[i].Type = "RelayData"})

(* the relay copies bytes of the dialled socket to the session *)
ConnRelayByte(s) ==
  /\ alive /\ transportUp
  /\ cPc[s] = "relay"
  /\ cRelay[s]
  /\ RelayedBytes(cWire[s]) < MaxRelayBytes
  /\ cWire' = [cWire EXCEPT ![s] = Append(@, [Type |-> "RelayData"])]
  /\ UNCHANGED <<cPc, dialOutcome, connectPacket, cRelay, procVars, netVars, lisVars, dispVars, termVars>>

(* StartRelay returns: one of the two streams was closed *)
ConnRelayEnd(s) ==
  /\ alive
  /\ cPc[s] = "relay"
  /\ cRelay[s]
  /\ cPc' = [cPc EXCEPT ![s] = "done"]
  /\ UNCHANGED <<dialOutcome, connectPacket, cWire, cRelay, procVars, netVars, lisVars, dispVars, termVars>>

ConnNext ==
  \/ \E s \in ConnSess : ConnDecode(s)
  \/ \E s \in ConnSess : \E outcome \in DialOutcomes : ConnDial(s, outcome)
  \/ \E s \in ConnSess : ConnRespond(s)
  \/ \E s \in ConnSess : ConnStartRelay(s)
  \/ \E s \in ConnSess : ConnRelayByte(s)
  \/ \E s \in ConnSess : ConnRelayEnd(s)
  \/ TransportLost
  \/ MainExit

(* ---------------------------------------------------------------------- *)
(* The listener registry and handleConn: case MessageListenerRequest       *)
(* ---------------------------------------------------------------------- *)
(* x++ on an int32 *)
Int32Inc(x) == IF x = MaxInt32 THEN -MaxInt32 - 1 ELSE x + 1

(* m[k] = v on a Go map *)
MapSet(m, k, v) == [x \in DOMAIN m \cup {k} |-> IF x = k THEN v ELSE m[x]]

EmptyMap == [x \in {} |-> 0]

Sockets == LisSess \X (1..MaxAccepts)

(* sock ids and listener ids the proxy may put in its requests *)
SockIDs == 1..(NumLisSess * MaxAccepts)

ListenerIDs == 0..(NumLisSess - 1)

ListenerResponsePacket(id, err) ==
  [Type |-> "MessageListenerResponse", ListenerID |-> id, Err |-> err]

ListenerBindReponse(id, err) ==
  [Type |-> "MessageListenerBindResponse", SockID |-> id, Err |-> err]

(* encoder.Encode on a listener session: a failure is only logged *)
Encode(w, env) == IF transportUp THEN Append(w, env) ELSE w

LisInit ==
  /\ listenerConntrack = EmptyMap
  /\ listenerMap = EmptyMap
  /\ connTrackID = 0
  /\ listenerID = 0
  /\ lPc = [l \in LisSess |-> "accept"]
  /\ lResp = [l \in LisSess |-> 0]
  /\ lTmp = [l \in LisSess |-> 0]
  /\ lWire = [l \in LisSess |-> <<>>]
  /\ lisState = [l \in LisSess |-> "none"]
  /\ aPc = [l \in LisSess |-> "none"]
  /\ aConn = [l \in LisSess |-> 0]
  /\ aTmp = [l \in LisSess |-> 0]
  /\ parkedAs = [l \in LisSess |-> <<>>]
  /\ sPc = [k \in SockSess |-> "accept"]
  /\ sArg = [k \in SockSess |-> 0]
  /\ sErr = [k \in SockSess |-> FALSE]
  /\ sBindSeen = [k \in SockSess |-> FALSE]
  /\ relays = [c \in Sockets |-> 0]
  /\ kPc = [c \in CloseSess |-> "accept"]
  /\ kArg = [c \in CloseSess |-> 0]
  /\ kErr = [c \in CloseSess |-> FALSE]

(* mutation of LisOpen: a failed open still consumes a listener id *)
LisOpenFailAllocates(l, ok) ==
  /\ alive /\ transportUp
  /\ lPc[l] = "accept"
  /\ IF ok
       THEN /\ lisState' = [lisState EXCEPT ![l] = "open"]
            /\ lResp' = [lResp EXCEPT ![l] = listenerID]
            /\ lPc' = [lPc EXCEPT ![l] = "store"]
            /\ UNCHANGED <<lWire, listenerID>>
       ELSE /\ lWire' = [lWire EXCEPT ![l] = Encode(@, ListenerResponsePacket(0, TRUE))]
            /\ lPc' = [lPc EXCEPT ![l] = "done"]
            /\ listenerID' = Int32Inc(listenerID)
            /\ UNCHANGED <<lisState, lResp>>
  /\ UNCHANGED <<lTmp, listenerConntrack, listenerMap, connTrackID,
                 acVars, skVars, clVars, procVars, connVars, netVars, dispVars, termVars>>

(* decoder.Decode() yields a ListenerRequestPacket; NewListener(network,   *)
(* address) succeeds or fails.  On failure ListenerResponse{Err} is sent   *)
(* and the handler returns; on success the handler goes on to              *)
(* listenerResponse := ListenerResponsePacket{ListenerID: listenerID, ...} *)
LisOpen(l, ok) ==
  /\ alive /\ transportUp
  /\ lPc[l] = "accept"
  /\ IF ok
       THEN /\ lisState' = [lisState EXCEPT ![l] = "open"]
            /\ lResp' = [lResp EXCEPT ![l] = listenerID]
            /\ lPc' = [lPc EXCEPT ![l] = "store"]
            /\ UNCHANGED lWire
       ELSE /\ lWire' = [lWire EXCEPT ![l] = Encode(@, ListenerResponsePacket(0, TRUE))]
            /\ lPc' = [lPc EXCEPT ![l] = "done"]
            /\ UNCHANGED <<lisState, lResp>>
  /\ UNCHANGED <<lTmp, regVars, acVars, skVars, clVars, procVars, connVars, netVars, dispVars, termVars>>

(* listenerMap[listenerID] = listener.Listener *)
LisStore(l) ==
  /\ alive
  /\ lPc[l] = "store"
  /\ listenerMap' = MapSet(listenerMap, listenerID, l)
  /\ lPc' = [lPc EXCEPT ![l] = "inc"]
  /\ UNCHANGED <<listenerConntrack, connTrackID, listenerID, lResp, lTmp, lWire, lisState,
                 acVars, skVars, clVars, procVars, connVars, netVars, dispVars, termVars>>

(* listenerID++ : the load *)
LisIncLoad(l) ==
  /\ alive
  /\ lPc[l] = "inc"
  /\ lTmp' = [lTmp EXCEPT ![l] = listenerID]
  /\ lPc' = [lPc EXCEPT ![l] = "incStore"]
  /\ UNCHANGED <<lResp, lWire, lisState, regVars, acVars, skVars, clVars, procVars, connVars, netVars, dispVars, termVars>>

(* listenerID++ : the store *)
LisIncStore(l) ==
  /\ alive
  /\ lPc[l] = "incStore"
  /\ listenerID' = Int32Inc(lTmp[l])
  /\ lPc' = [lPc EXCEPT ![l] = "respond"]
  /\ UNCHANGED <<listenerConntrack, listenerMap, connTrackID, lResp, lTmp, lWire, lisState,
                 acVars, skVars, clVars, procVars, connVars, netVars, dispVars, termVars>>

(* encoder.Encode(ListenerResponse) and go listener.ListenAndServe(...)    *)
LisRespond(l) ==
  /\ alive
  /\ lPc[l] = "respond"
  /\ lWire' = [lWire EXCEPT ![l] = Encode(@, ListenerResponsePacket(lResp[l], FALSE))]
  /\ aPc' = [aPc EXCEPT ![l] = "accept"]
  /\ lPc' = [lPc EXCEPT ![l] = "loop"]
  /\ UNCHANGED <<lResp, lTmp, lisState, aConn, aTmp, parkedAs,
                 regVars, skVars, clVars, procVars, connVars, netVars, dispVars, termVars>>

(* select { case connTrackID := <-connTrackChan: ... } and the Encode of   *)
(* ListenerBindReponse{SockID: connTrackID}; the accept loop's send on     *)
(* the unbuffered channel completes                                        *)
LisRecvConn(l) ==
  /\ alive
  /\ lPc[l] = "loop"
  /\ aPc[l] = "send"
  /\ lWire' = [lWire EXCEPT ![l] = Encode(@, ListenerBindReponse(aTmp[l], FALSE))]
  /\ aPc' = [aPc EXCEPT ![l] = "park"]
  /\ UNCHANGED <<lPc, lResp, lTmp, lisState, aConn, aTmp, parkedAs,
                 regVars, skVars, clVars, procVars, connVars, netVars, dispVars, termVars>>

(* select { case err := <-stopChan: ... }, the Encode of the final         *)
(* ListenerBindReponse{Err: true}, break, and the deferred                 *)
(* listener.Close(); the accept goroutine's send completes and it exits    *)
LisRecvStop(l) ==
  /\ alive
  /\ lPc[l] = "loop"
  /\ aPc[l] = "sendStop"
  /\ lWire' = [lWire EXCEPT ![l] = Encode(@, ListenerBindReponse(0, TRUE))]
  /\ lisState' = [lisState EXCEPT ![l] = "closed"]
  /\ aPc' = [aPc EXCEPT ![l] = "exit"]
  /\ lPc' = [lPc EXCEPT ![l] = "done"]
  /\ UNCHANGED <<lResp, lTmp, aConn, aTmp, parkedAs,
                 regVars, skVars, clVars, procVars, connVars, netVars, dispVars, termVars>>

(* ---------------------------------------------------------------------- *)
(* Listener.ListenAndServe                                                 *)
(* ---------------------------------------------------------------------- *)
(* conn, err := s.Accept() with err == nil, then connTrackID++ : the load *)
AcceptConn(l) ==
  /\ alive
  /\ aPc[l] = "accept"
  /\ lisState[l] = "open"
  /\ aConn[l] < MaxAccepts
  /\ aConn' = [aConn EXCEPT ![l] = @ + 1]
  /\ aTmp' = [aTmp EXCEPT ![l] = connTrackID]
  /\ aPc' = [aPc EXCEPT ![l] = "incStore"]
  /\ UNCHANGED <<parkedAs, regVars, lsVars, skVars, clVars, procVars, connVars, netVars, dispVars, termVars>>

(* s.Accept() fails (always so once the listener is closed): return err,   *)
(* and the goroutine goes on to stopChan <- err                            *)
AcceptErr(l) ==
  /\ alive
  /\ aPc[l] = "accept"
  /\ aPc' = [aPc EXCEPT ![l] = "sendStop"]
  /\ UNCHANGED <<aConn, aTmp, parkedAs, regVars, lsVars, skVars, clVars, procVars, connVars, netVars, dispVars, termVars>>

(* connTrackID++ : the store *)
AcceptIncStore(l) ==
  /\ alive
  /\ aPc[l] = "incStore"
  /\ connTrackID' = Int32Inc(aTmp[l])
  /\ aPc' = [aPc EXCEPT ![l] = "eval"]
  /\ UNCHANGED <<listenerConntrack, listenerMap, listenerID, aConn, aTmp, parkedAs,
                 lsVars, skVars, clVars, procVars, connVars, netVars, dispVars, termVars>>

(* connTrackChan <- connTrackID : the operand is evaluated, then the      *)
(* goroutine blocks until the handler receives                             *)
AcceptEvalSend(l) ==
  /\ alive
  /\ aPc[l] = "eval"
  /\ aTmp' = [aTmp EXCEPT ![l] = connTrackID]
  /\ aPc' = [aPc EXCEPT ![l] = "send"]
  /\ UNCHANGED <<aConn, parkedAs, regVars, lsVars, skVars, clVars, procVars, connVars, netVars, dispVars, termVars>>

(* listenerConntrack[connTrackID] = conn *)
AcceptPark(l) ==
  /\ alive
  /\ aPc[l] = "park"
  /\ listenerConntrack' = MapSet(listenerConntrack, connTrackID, <<l, aConn[l]>>)
  /\ parkedAs' = [parkedAs EXCEPT ![l] = Append(@, connTrackID)]
  /\ aPc' = [aPc EXCEPT ![l] = "accept"]
  /\ UNCHANGED <<listenerMap, connTrackID, listenerID, aConn, aTmp,
                 lsVars, skVars, clVars, procVars, connVars, netVars, dispVars, termVars>>

(* ---------------------------------------------------------------------- *)
(* handleConn: case protocol.MessageListenerSockRequest                    *)
(* ---------------------------------------------------------------------- *)
BindIDs(w) == {w[i].SockID : i \in {j \in 1..Len(w) :
                 w[j].Type = "MessageListenerBindResponse" /\ ~w[j].Err}}

BindStreamed(id) == \E l \in LisSess : id \in BindIDs(lWire[l])

(* decoder.Decode() yields a ListenerSockRequestPacket; the lookup         *)
(* _, ok := listenerConntrack[SockID]; encoder.Encode(ListenerSockResponse)*)
(* with logrus.Fatal when it fails; return when sockResponse.Err           *)
SockLookup(k, id) ==
  /\ alive /\ transportUp
  /\ sPc[k] = "accept"
  /\ sArg' = [sArg EXCEPT ![k] = id]
  /\ sErr' = [sErr EXCEPT ![k] = id \notin DOMAIN listenerConntrack]
  /\ sBindSeen' = [sBindSeen EXCEPT ![k] = BindStreamed(id)]
  /\ sPc' = [sPc EXCEPT ![k] = IF id \notin DOMAIN listenerConntrack THEN "done" ELSE "relay"]
  /\ UNCHANGED <<relays, regVars, lsVars, acVars, clVars, procVars, connVars, netVars, dispVars, termVars>>

(* netConn := listenerConntrack[sockRequest.SockID];                       *)
(* relay.StartRelay(netConn, conn)                                         *)
SockStartRelay(k) ==
  /\ alive
  /\ sPc[k] = "relay"
  /\ sArg[k] \in DOMAIN listenerConntrack
  /\ relays' = [relays EXCEPT ![listenerConntrack[sArg[k]]] = @ + 1]
  /\ sPc' = [sPc EXCEPT ![k] = "done"]
  /\ UNCHANGED <<sArg, sErr, sBindSeen, regVars, lsVars, acVars, clVars, procVars, connVars, netVars, dispVars, termVars>>

(* ---------------------------------------------------------------------- *)
(* handleConn: case protocol.MessageListenerCloseRequest                   *)
(* ---------------------------------------------------------------------- *)
(* if lis, ok := listenerMap[ListenerID]; ok { err = lis.Close() } else    *)
(* { err = errors.New("invalid listener id") }; the response is encoded.   *)
(* Close of a net.Listener that is already closed returns an error.        *)
CloseListener(c, id) ==
  /\ alive /\ transportUp
  /\ kPc[c] = "accept"
  /\ kArg' = [kArg EXCEPT ![c] = id]
  /\ IF id \in DOMAIN listenerMap
       THEN /\ kErr' = [kErr EXCEPT ![c] = lisState[listenerMap[id]] # "open"]
            /\ lisState' = [lisState EXCEPT ![listenerMap[id]] = "closed"]
       ELSE /\ kErr' = [kErr EXCEPT ![c] = TRUE]
            /\ UNCHANGED lisState
  /\ kPc' = [kPc EXCEPT ![c] = "done"]
  /\ UNCHANGED <<lPc, lResp, lTmp, lWire, regVars, acVars, skVars, procVars, connVars, netVars, dispVars, termVars>>

ListenerNext ==
  \/ \E l \in LisSess : \E ok \in BOOLEAN : LisOpen(l, ok)
  \/ \E l \in LisSess : LisStore(l)
  \/ \E l \in LisSess : LisIncLoad(l)
  \/ \E l \in LisSess : LisIncStore(l)
  \/ \E l \in LisSess : LisRespond(l)
  \/ \E l \in LisSess : LisRecvConn(l)
  \/ \E l \in LisSess : LisRecvStop(l)
  \/ \E l \in LisSess : AcceptConn(l)
  \/ \E l \in LisSess : AcceptErr(l)
  \/ \E l \in LisSess : AcceptIncStore(l)
  \/ \E l \in LisSess : AcceptEvalSend(l)
  \/ \E l \in LisSess : AcceptPark(l)
  \/ \E k \in SockSess : \E id \in SockIDs : SockLookup(k, id)
  \/ \E k \in SockSess : SockStartRelay(k)
  \/ \E c \in CloseSess : \E id \in ListenerIDs : CloseListener(c, id)

(* the ListenerRequest sessions with their accept loops, and the          *)
(* ListenerCloseRequest sessions that close them                           *)
ListenNext ==
  \/ \E l \in LisSess : \E ok \in BOOLEAN : LisOpen(l, ok)
  \/ \E l \in LisSess : LisStore(l)
  \/ \E l \in LisSess : LisIncLoad(l)
  \/ \E l \in LisSess : LisIncStore(l)
  \/ \E l \in LisSess : LisRespond(l)
  \/ \E l \in LisSess : LisRecvConn(l)
  \/ \E l \in LisSess : LisRecvStop(l)
  \/ \E l \in LisSess : AcceptConn(l)
  \/ \E l \in LisSess : AcceptErr(l)
  \/ \E l \in LisSess : AcceptIncStore(l)
  \/ \E l \in LisSess : AcceptEvalSend(l)
  \/ \E l \in LisSess : AcceptPark(l)
  \/ \E c \in CloseSess : \E id \in ListenerIDs : CloseListener(c, id)

(* s.Accept() on a listener that has been closed returns an error *)
AcceptClosed(l) == lisState[l] = "closed" /\ AcceptErr(l)

(* the Go scheduler runs every runnable goroutine: a step of the handler   *)
(* or of the accept goroutine that stays enabled is eventually taken.      *)
(* The arrival of requests and of client connections is not fair.          *)
ListenFairness ==
  \A l \in LisSess :
    /\ WF_vars(LisStore(l))
    /\ WF_vars(LisIncLoad(l))
    /\ WF_vars(LisIncStore(l))
    /\ WF_vars(LisRespond(l))
    /\ WF_vars(LisRecvConn(l))
    /\ WF_vars(LisRecvStop(l))
    /\ WF_vars(AcceptIncStore(l))
    /\ WF_vars(AcceptEvalSend(l))
    /\ WF_vars(AcceptPark(l))
    /\ WF_vars(AcceptClosed(l))

(* ---------------------------------------------------------------------- *)
(* handleConn: decoder.Decode() and the switch on decoder.Envelope.Type    *)
(* ---------------------------------------------------------------------- *)
RequestTypes ==
  {"MessageConnectRequest", "MessageHostPingRequest", "MessageInfoRequest",
   "MessageListenerCloseRequest", "MessageListenerRequest",
   "MessageListenerSockRequest", "MessageClose"}

(* envelope types the switch has no case for *)
OtherTypes == {"MessageConnectResponse"}

(* the sessions of the model that can carry a request of the given type *)
SessOf(t) ==
  CASE t = "MessageConnectRequest" -> Sess \cap ConnSess
    [] t = "MessageListenerRequest" -> Sess \cap LisSess
    [] t = "MessageListenerSockRequest" -> Sess \cap SockSess
    [] t = "MessageListenerCloseRequest" -> Sess \cap CloseSess
    [] OTHER -> Sess

DispInit ==
  /\ dPc = [s \in Sess |-> "accept"]
  /\ dType = [s \in Sess |-> "none"]
  /\ dWire = [s \in Sess |-> <<>>]

(* mutation of Case: every case of the switch runs *)
CaseFallthrough(s, t) == dPc[s] = "switch"

(* switch decoder.Envelope.Type { case t: ... } *)
Case(s, t) == dPc[s] = "switch" /\ dType[s] = t

(* go handleConn(conn); decoder.Decode() returns an envelope of type t *)
Decode(s, t) ==
  /\ alive /\ transportUp
  /\ dPc[s] = "accept"
  /\ dType' = [dType EXCEPT ![s] = t]
  /\ dPc' = [dPc EXCEPT ![s] = IF t \in RequestTypes THEN "switch" ELSE "done"]
  /\ UNCHANGED <<dWire, procVars, connVars, lisVars, netVars, termVars>>

(* decoder.Decode() fails: panic(err).  A panic that no goroutine recovers *)
(* ends the whole process.                                                 *)
DecodeError(s) ==
  /\ alive /\ transportUp
  /\ dPc[s] = "accept"
  /\ dType' = [dType EXCEPT ![s] = "ProtocolError"]
  /\ dPc' = [dPc EXCEPT ![s] = "panic"]
  /\ alive' = FALSE
  /\ UNCHANGED <<dWire, transportUp, connVars, lisVars, netVars, termVars>>

(* case protocol.MessageHostPingRequest: smartping.TryResolve, then Encode *)
(* with logrus.Fatal when it fails                                         *)
HostPing(s, isAlive) ==
  /\ alive
  /\ Case(s, "MessageHostPingRequest")
  /\ IF transportUp
       THEN /\ dWire' = [dWire EXCEPT ![s] =
                 Append(@, [Type |-> "MessageHostPingResponse", Alive |-> isAlive])]
            /\ dPc' = [dPc EXCEPT ![s] = "done"]
            /\ UNCHANGED alive
       ELSE /\ alive' = FALSE
            /\ UNCHANGED <<dWire, dPc>>
  /\ UNCHANGED <<dType, transportUp, connVars, lisVars, netVars, termVars>>

(* case protocol.MessageClose: os.Exit(0) *)
CloseAgent(s) ==
  /\ alive
  /\ Case(s, "MessageClose")
  /\ alive' = FALSE
  /\ dPc' = [dPc EXCEPT ![s] = "done"]
  /\ UNCHANGED <<dType, dWire, transportUp, connVars, lisVars, netVars, termVars>>

(* fmt.Sprintf("%s@%s", username, hostname): the parts of the name *)
Sprintf(username, hostname) == <<username, "@", hostname>>

(* what the lookups return when they succeed *)
HostName == "host"

UserName == "user"

(* values of the handler's locals after os.Hostname() and user.Current():  *)
(* err is the error of os.Hostname(), the one of user.Current() is         *)
(* discarded, and err is tested a second time to choose the username       *)
InfoHostname(hostOk) == IF hostOk THEN HostName ELSE "UNKNOWN"

InfoUsername(hostOk) == IF ~hostOk THEN "Unknown" ELSE UserName

(* userinfo.Username is read from a nil *user.User *)
InfoNilDeref(hostOk, userOk) == hostOk /\ ~userOk

(* case protocol.MessageInfoRequest *)
InfoRequest(s, hostOk, userOk, ifOk) ==
  /\ alive
  /\ Case(s, "MessageInfoRequest")
  /\ IF InfoNilDeref(hostOk, userOk)
       THEN /\ alive' = FALSE
            /\ dPc' = [dPc EXCEPT ![s] = "panic"]
            /\ UNCHANGED dWire
       ELSE IF ~ifOk
         THEN /\ dPc' = [dPc EXCEPT ![s] = "done"]
              /\ UNCHANGED <<dWire, alive>>
         ELSE IF transportUp
           THEN /\ dWire' = [dWire EXCEPT ![s] =
                     Append(@, [Type |-> "MessageInfoReply",
                                Name |-> Sprintf(InfoUsername(hostOk),
                                                 InfoHostname(hostOk))])]
                /\ dPc' = [dPc EXCEPT ![s] = "done"]
                /\ UNCHANGED alive
           ELSE /\ alive' = FALSE
                /\ UNCHANGED <<dWire, dPc>>
  /\ UNCHANGED <<dType, transportUp, connVars, lisVars, netVars, termVars>>

DispNext ==
  \/ \E s \in Sess : \E t \in RequestTypes \cup OtherTypes :
       s \in SessOf(t) /\ Decode(s, t)
  \/ \E s \in Sess : DecodeError(s)
  \/ \E s \in Sess : \E isAlive \in BOOLEAN : HostPing(s, isAlive)
  \/ \E s \in Sess : \E hostOk, userOk, ifOk \in BOOLEAN :
       InfoRequest(s, hostOk, userOk, ifOk)
  \/ \E s \in Sess : CloseAgent(s)
  \/ \E s \in SessOf("MessageConnectRequest") :
       Case(s, "MessageConnectRequest") /\ ConnDecode(s)
  \/ \E s \in ConnSess : \E o \in DialOutcomes : ConnDial(s, o)
  \/ \E s \in ConnSess : ConnRespond(s)
  \/ \E s \in ConnSess : ConnStartRelay(s)
  \/ \E s \in ConnSess : ConnRelayByte(s)
  \/ \E s \in ConnSess : ConnRelayEnd(s)
  \/ \E l \in SessOf("MessageListenerRequest") : \E ok \in BOOLEAN :
       Case(l, "MessageListenerRequest") /\ LisOpen(l, ok)
  \/ \E l \in LisSess : LisStore(l)
  \/ \E l \in LisSess : LisIncLoad(l)
  \/ \E l \in LisSess : LisIncStore(l)
  \/ \E l \in LisSess : LisRespond(l)
  \/ \E l \in LisSess : LisRecvConn(l)
  \/ \E l \in LisSess : LisRecvStop(l)
  \/ \E l \in LisSess : AcceptConn(l)
  \/ \E l \in LisSess : AcceptErr(l)
  \/ \E l \in LisSess : AcceptIncStore(l)
  \/ \E l \in LisSess : AcceptEvalSend(l)
  \/ \E l \in LisSess : AcceptPark(l)
  \/ \E k \in SessOf("MessageListenerSockRequest") : \E id \in SockIDs :
       Case(k, "MessageListenerSockRequest") /\ SockLookup(k, id)
  \/ \E k \in SockSess : SockStartRelay(k)
  \/ \E c \in SessOf("MessageListenerCloseRequest") : \E id \in ListenerIDs :
       Case(c, "MessageListenerCloseRequest") /\ CloseListener(c, id)
  \/ TransportLost
  \/ MainExit

(* ---------------------------------------------------------------------- *)
(* TunConn.Terminate applied to tun-connections of every kind              *)
(* ---------------------------------------------------------------------- *)
Protocols == {TCPProtocolNumber, UDPProtocolNumber, ICMPProtocolNumber4}

TermInit ==
  /\ tCalls = 0
  /\ tConn = TunConn(0, 0)
  /\ tReset = FALSE

(* t.Terminate(reset) *)
TerminateCall(t, reset) ==
  /\ tCalls < MaxTerminates
  /\ completes' = Terminate(completes, t, reset)
  /\ tCalls' = tCalls + 1
  /\ tConn' = t
  /\ tReset' = reset
  /\ UNCHANGED <<pool, mu, closed, queue, cbPc, cbProto, cbSeen, cbAdded, cbAddOk,
                 swPc, swArg, swOld, agentVars>>

TermNext ==
  \E proto \in Protocols : \E r \in Reqs : \E reset \in BOOLEAN :
    TerminateCall(TunConn(proto, r), reset)

Init == NetInit /\ ProcInit /\ ConnInit /\ LisInit /\ DispInit /\ TermInit

Next == NetNext

Spec == Init /\ [][Next]_vars

(* the agent runs in a process of its own, without a NetStack *)
AgentInit == Init /\ pool = NilPool

(* every forwarder callback and every SetConnPool call of the model has    *)
(* been invoked and runs on its own task; the scheduler runs every task    *)
(* that can take a step, and a task waiting in Lock() gets the mutex when  *)
(* it stays free.  The pool's consumer and Close are not fair.             *)
NetFairness ==
  /\ \A r \in Reqs :
       /\ WF_vars(\E proto \in {TCPProtocolNumber, UDPProtocolNumber} : CbLock(r, proto))
       /\ WF_vars(CbCheck(r))
       /\ WF_vars(CbAdd(r))
       /\ WF_vars(CbUnlock(r))
  /\ \A s \in Swappers :
       /\ WF_vars(\E p \in {NilPool} \cup Pools : SetConnPoolLock(s, p))
       /\ WF_vars(SetConnPoolAssign(s))
       /\ WF_vars(SetConnPoolUnlock(s))

SpecFair == Spec /\ NetFairness

SpecConnect == AgentInit /\ [][ConnNext]_vars

SpecListener == AgentInit /\ [][ListenerNext]_vars

SpecDispatch == AgentInit /\ [][DispNext]_vars

SpecDispatchFair == SpecDispatch /\ ListenFairness

SpecTerminate == Init /\ [][TermNext]_vars

SpecListen == AgentInit /\ [][ListenNext]_vars /\ ListenFairness

(* ---------------------------------------------------------------------- *)
(* Properties of package netstack                                          *)
(* ---------------------------------------------------------------------- *)
InCallbackSection(r) == cbPc[r] \in {"check", "add", "unlock"}

InSwapSection(s) == swPc[s] \in {"assign", "unlock"}

InSomeQueue(r) == \E p \in Pools : \E i \in 1..Len(queue[p]) : queue[p][i].Handler = r

(* C1: the pool swap is atomic with respect to the forwarder callbacks: no *)
(* SetConnPool is inside its critical section while a callback is inside   *)
(* its own, the pool pointer a callback is about to Add to is the one its  *)
(* nil/closed check read, and the pool it called Add on is that same one.  *)
C1_SwapAtomic ==
  /\ \A r \in Reqs : \A s \in Swappers : ~(InCallbackSection(r) /\ InSwapSection(s))
  /\ \A r \in Reqs : cbPc[r] = "add" => pool = cbSeen[r]
  /\ \A r \in Reqs : cbAdded[r] # NilPool => cbAdded[r] = cbSeen[r]

(* two callbacks added successfully to different pools: a swap separated them *)
C1_Witness ==
  \E r1 \in Reqs : \E r2 \in Reqs :
    /\ cbAddOk[r1] /\ cbAddOk[r2]
    /\ cbAdded[r1] # cbAdded[r2]
    /\ \E s \in Swappers :
         swPc[s] = "done" /\ swOld[s] = cbAdded[r1] /\ swArg[s] = cbAdded[r2]

(* C2: once SetConnPool has replaced a pool by another one, the old pool   *)
(* is Closed and nothing is left queued in it (its queued TCP              *)
(* tun-connections were terminated with reset=true).                       *)
C2_SwapClosesOldPool ==
  \A s \in Swappers :
    (swPc[s] \in {"unlock", "done"} /\ swOld[s] # NilPool /\ swOld[s] # swArg[s])
      => (closed[swOld[s]] /\ queue[swOld[s]] = <<>>)

(* C3: every TCP forwarder-request the callback hands to the pool is       *)
(* completed exactly once: never twice, and once the callback has returned *)
(* and the request is no longer queued it has been completed.              *)
C3_CompletedExactlyOnce ==
  \A r \in Reqs :
    /\ Len(completes[r]) <= 1
    /\ (cbProto[r] = TCPProtocolNumber /\ cbPc[r] = "done"
          /\ cbAdded[r] # NilPool /\ ~InSomeQueue(r))
        => Len(completes[r]) = 1


(* ---------------------------------------------------------------------- *)
(* Properties of the agent's ConnectRequest handler                        *)
(* ---------------------------------------------------------------------- *)
Responded(s) == cPc[s] \in {"respond", "relay", "done"}

ConnectResponses(w) ==
  {i \in 1..Len(w) : w[i].Type = "MessageConnectResponse"}

(* C4: the ConnectResponse flags are a function of the dial outcome: dial  *)
(* success gives established and no reset; a failure with a host-responded *)
(* errno gives reset and not established; any other failure gives neither; *)
(* established and reset are never both set.  The envelope on the wire     *)
(* carries these flags.                                                    *)
C4_ConnectFlags ==
  \A s \in ConnSess :
    Responded(s) =>
      LET o == dialOutcome[s]
          hostResp == o.err /\ o.errno # NoErrno /\ HostResponded(o.errno)
          p == connectPacket[s]
      IN /\ (~o.err => (p.Established /\ ~p.Reset))
         /\ (hostResp => (~p.Established /\ p.Reset))
         /\ ((o.err /\ ~hostResp) => (~p.Established /\ ~p.Reset))
         /\ ~(p.Established /\ p.Reset)
         /\ \A i \in ConnectResponses(cWire[s]) : cWire[s][i].Payload = p

(* a refused dial, a timed-out dial and a dial failing with another errno  *)
(* have all been answered                                                  *)
C4_Witness ==
  \E s \in ConnSess :
    /\ cPc[s] = "done"
    /\ dialOutcome[s].err
    /\ dialOutcome[s].errno = "ETIMEDOUT"
    /\ ConnectResponses(cWire[s]) # {}
    /\ \E t \in ConnSess :
         /\ cPc[t] = "done"
         /\ dialOutcome[t].errno = "ECONNREFUSED"
         /\ ConnectResponses(cWire[t]) # {}

(* C5: a connect session carries at most one ConnectResponse, exactly one  *)
(* once the handler is past its Encode (the process is gone otherwise); it *)
(* is the first thing written on the session, before any relayed byte; and *)
(* the relay is started only after a response with established=true, and   *)
(* has been started on every finished session whose response said so.      *)
C5_OneResponseThenRelay ==
  \A s \in ConnSess :
    LET w == cWire[s] IN
    /\ Cardinality(ConnectResponses(w)) <= 1
    /\ (cPc[s] \in {"relay", "done"} => ConnectResponses(w) = {1})
    /\ (w # <<>> => w[1].Type = "MessageConnectResponse")
    /\ (cRelay[s] => (ConnectResponses(w) = {1} /\ w[1].Payload.Established))
    /\ (cPc[s] = "done" => (cRelay[s] <=> w[1].Payload.Established))
    /\ (RelayedBytes(w) > 0 => cRelay[s])

(* one session relayed bytes after established=true, another was refused   *)
(* and finished without a relay                                            *)
C5_Witness ==
  \E s \in ConnSess : \E t \in ConnSess :
    /\ cPc[s] = "done" /\ cRelay[s] /\ RelayedBytes(cWire[s]) > 0
    /\ cPc[t] = "done" /\ ~cRelay[t] /\ Len(cWire[t]) = 1

(* ---------------------------------------------------------------------- *)
(* Properties of the listener registry                                     *)
(* ---------------------------------------------------------------------- *)
IsBind(e) == e.Type = "MessageListenerBindResponse" /\ ~e.Err

(* the sock ids a listener session streamed, in order *)
BindSeq(w) == LET b == SelectSeq(w, IsBind) IN [i \in 1..Len(b) |-> b[i].SockID]

IsOkListenerResponse(e) == e.Type = "MessageListenerResponse" /\ ~e.Err

Answered(l) == \E i \in 1..Len(lWire[l]) : IsOkListenerResponse(lWire[l][i])

(* C6: a ListenerSockRequest{sock_id} is answered err=false if and only if *)
(* a ListenerBindResponse with that sock_id had been streamed; a request   *)
(* made after the bind response never gets err=true.                       *)
C6_SockOkIffBindStreamed ==
  \A k \in SockSess : sPc[k] # "accept" => (~sErr[k] <=> sBindSeen[k])

(* C7: every accepted socket is parked under the id streamed for it, the   *)
(* streamed ids are strictly increasing and unique across all listeners,   *)
(* and no socket's entry is overwritten by another socket.                 *)
C7_ParkedUnderStreamedId ==
  /\ \A l \in LisSess : \A i \in 1..Len(parkedAs[l]) :
       /\ parkedAs[l][i] = BindSeq(lWire[l])[i]
       /\ listenerConntrack[parkedAs[l][i]] = <<l, i>>
  /\ \A l \in LisSess : \A i \in 1..Len(BindSeq(lWire[l])) : \A j \in 1..Len(BindSeq(lWire[l])) :
       i < j => BindSeq(lWire[l])[i] < BindSeq(lWire[l])[j]
  /\ \A l1 \in LisSess : \A l2 \in LisSess :
       l1 # l2 => BindIDs(lWire[l1]) \cap BindIDs(lWire[l2]) = {}

(* C8: two successful ListenerRequests never receive the same listener_id, *)
(* the id returned is the key the listener is recorded under, and no       *)
(* registry entry of a live listener is overwritten by another listener.   *)
C8_ListenerIdsUnique ==
  /\ \A l1 \in LisSess : \A l2 \in LisSess :
       (l1 # l2 /\ Answered(l1) /\ Answered(l2)) => lResp[l1] # lResp[l2]
  /\ \A l \in LisSess :
       (Answered(l) /\ lisState[l] = "open") =>
         (lResp[l] \in DOMAIN listenerMap /\ listenerMap[lResp[l]] = l)

(* C9: a successful ListenerSockRequest consumes its conntrack entry: the  *)
(* entry is gone once claimed, at most one request per sock_id is answered *)
(* err=false, and at most one relay is started per accepted socket.        *)
C9_SockClaimedOnce ==
  /\ \A k \in SockSess :
       (sPc[k] = "done" /\ ~sErr[k]) => sArg[k] \notin DOMAIN listenerConntrack
  /\ \A k1 \in SockSess : \A k2 \in SockSess :
       (k1 # k2 /\ sPc[k1] # "accept" /\ sPc[k2] # "accept" /\ ~sErr[k1] /\ ~sErr[k2])
         => sArg[k1] # sArg[k2]
  /\ \A c \in Sockets : relays[c] <= 1

(* C10: once a ListenerCloseRequest has been answered err=false its        *)
(* listener_id is no longer a key of the listener table, and a request for *)
(* an id that is not registered is answered err=true.                      *)
C10_CloseRemovesListener ==
  \A c \in CloseSess :
    kPc[c] = "done" =>
      /\ (~kErr[c] => kArg[c] \notin DOMAIN listenerMap)
      /\ (kArg[c] \notin DOMAIN listenerMap => kErr[c])

(* the conntrack keys that hold a socket accepted by listener l and not    *)
(* handed to a relay                                                       *)
Unclaimed(l) ==
  {id \in DOMAIN listenerConntrack :
     listenerConntrack[id][1] = l /\ relays[listenerConntrack[id]] = 0}

(* C11: once the accept loop of a closed listener has exited, none of the  *)
(* sockets it accepted is left unclaimed in conntrack.                     *)
C11_UnclaimedDrainedOnClose ==
  \A l \in LisSess : aPc[l] = "exit" => Unclaimed(l) = {}

(* tasks that have loaded a counter for ++ and not yet stored it back *)
InListenerIDUpdate == {l \in LisSess : lPc[l] = "incStore"}

InConnTrackIDUpdate == {l \in LisSess : aPc[l] = "incStore"}

(* C14: accesses to the registry tables and their id counters are          *)
(* serialized: no two tasks are inside an update of the same counter at    *)
(* the same time, and no task writes a counter while another holds a value *)
(* it loaded for its own update.                                           *)
C14_RegistrySerialized ==
  /\ Cardinality(InListenerIDUpdate) <= 1
  /\ Cardinality(InConnTrackIDUpdate) <= 1

(* C13: a request envelope that fails to decode ends its own session only: *)
(* whenever some session has had a protocol error the agent process is     *)
(* still running.                                                          *)
C13_ProtocolErrorIsLocal ==
  (\E s \in Sess : dType[s] = "ProtocolError") => alive

(* the types whose case of the switch has been entered on session s *)
HandlersRun(s) ==
  {t \in RequestTypes :
     \/ t = "MessageConnectRequest" /\ s \in ConnSess /\ cPc[s] # "accept"
     \/ t = "MessageListenerRequest" /\ s \in LisSess /\ lPc[s] # "accept"
     \/ t = "MessageListenerSockRequest" /\ s \in SockSess /\ sPc[s] # "accept"
     \/ t = "MessageListenerCloseRequest" /\ s \in CloseSess /\ kPc[s] # "accept"
     \/ t = "MessageHostPingRequest" /\
          \E i \in 1..Len(dWire[s]) : dWire[s][i].Type = "MessageHostPingResponse"
     \/ t = "MessageInfoRequest" /\
          \E i \in 1..Len(dWire[s]) : dWire[s][i].Type = "MessageInfoReply"}

(* the number of response envelopes written on session s; the sock and     *)
(* close handlers write theirs in the step that leaves "accept"            *)
Envelopes(s) ==
  (IF s \in ConnSess THEN Cardinality(ConnectResponses(cWire[s])) ELSE 0)
  + (IF s \in LisSess THEN Len(lWire[s]) ELSE 0)
  + (IF s \in SockSess /\ sPc[s] # "accept" THEN 1 ELSE 0)
  + (IF s \in CloseSess /\ kPc[s] # "accept" THEN 1 ELSE 0)
  + Len(dWire[s])

(* C16: a session's handler runs the case of the one envelope it decoded   *)
(* and no other; a session whose request is not a ListenerRequest carries  *)
(* at most one response envelope, and a ListenerRequest session's first    *)
(* envelope is the ListenerResponse and all later ones are                 *)
(* ListenerBindResponses.                                                  *)
C16_OneEnvelopePerSession ==
  \A s \in Sess :
    /\ HandlersRun(s) \subseteq {dType[s]}
    /\ dPc[s] = "accept" => Envelopes(s) = 0
    /\ dType[s] # "MessageListenerRequest" => Envelopes(s) <= 1
    /\ dType[s] = "MessageListenerRequest" =>
         \A i \in 1..Len(lWire[s]) :
           IF i = 1 THEN lWire[s][i].Type = "MessageListenerResponse"
                    ELSE lWire[s][i].Type = "MessageListenerBindResponse"

(* a ListenerRequest session that carries a ListenerResponse and a bind    *)
(* response, next to a session of another type that got its one response   *)
C16_Witness ==
  \E s, u \in Sess :
    /\ dType[s] = "MessageListenerRequest" /\ Len(lWire[s]) >= 2
    /\ dType[u] \in RequestTypes \ {"MessageListenerRequest"}
    /\ Envelopes(u) = 1

(* the names an InfoReply may carry: each part is the looked-up value or   *)
(* the literal "UNKNOWN"                                                   *)
InfoNames ==
  {Sprintf(u, h) : u \in {UserName, "UNKNOWN"}, h \in {HostName, "UNKNOWN"}}

(* C18: whatever the hostname and current-user lookups return, the         *)
(* InfoRequest handler is not aborted by them and every InfoReply it sends *)
(* is named <user>@<host>, a failed part being the literal "UNKNOWN".     *)
C18_InfoReplyName ==
  \A s \in Sess :
    dType[s] = "MessageInfoRequest" =>
      /\ dPc[s] # "panic"
      /\ \A i \in 1..Len(dWire[s]) : dWire[s][i].Name \in InfoNames


(* the listener session has sent its final envelope: the last envelope is  *)
(* the ListenerBindReponse with Err and no earlier one has Err             *)
FinalBindSent(l) ==
  /\ Len(lWire[l]) > 0
  /\ lWire[l][Len(lWire[l])] = ListenerBindReponse(0, TRUE)
  /\ \A i \in 1..(Len(lWire[l]) - 1) : ~lWire[l][i].Err

(* an envelope with Err on an opened listener session is a bind response   *)
(* and the last envelope of the session                                    *)
ErrBindIsLast(l) ==
  \A i \in 1..Len(lWire[l]) :
    lWire[l][i].Err /\ lisState[l] # "none" =>
      /\ i = Len(lWire[l])
      /\ lWire[l][i].Type = "MessageListenerBindResponse"
      /\ lPc[l] = "done"

(* the agent was told to exit (MessageClose) or lost its transport, which  *)
(* cancels every session                                                   *)
AgentStopped ==
  \/ ~transportUp
  \/ \E s \in Sess : dType[s] = "MessageClose" /\ dPc[s] = "done"

(* C12: once the accept of a listener session fails, or its listener has   *)
(* been closed, the session eventually has the err=true bind response as   *)
(* its last envelope with the streaming loop and the accept task both      *)
(* terminated, unless the agent is told to exit or loses its transport;    *)
(* an err=true bind response is never followed by another envelope.        *)
C12_FinalBindThenExit ==
  \A l \in LisSess :
    /\ [] ErrBindIsLast(l)
    /\ (aPc[l] = "sendStop" \/ lisState[l] = "closed")
         ~> \/ FinalBindSent(l) /\ lPc[l] = "done" /\ aPc[l] = "exit"
            \/ AgentStopped

(* the session's open of the server socket failed *)
OpenFailed(l) == lPc[l] = "done" /\ lisState[l] = "none"

(* the step in which NewListener fails on session l *)
OpenFails(l) == lPc[l] = "accept" /\ lPc'[l] = "done"

(* C17: the step in which the open of the server socket fails writes one   *)
(* ListenerResponse with err=true, ends the session and leaves the         *)
(* listener-id counter, the sock-id counter and both tables as they were;  *)
(* such a session never has a listener id, a table entry or an accept      *)
(* loop, and never writes another envelope.                                *)
C17_OpenFailureLeavesRegistry ==
  /\ [][\A l \in LisSess :
          OpenFails(l) =>
            /\ lWire'[l] = <<ListenerResponsePacket(0, TRUE)>>
            /\ UNCHANGED <<listenerID, connTrackID, listenerMap, listenerConntrack>>
            /\ UNCHANGED aPc]_vars
  /\ [](\A l \in LisSess :
          OpenFailed(l) =>
            /\ lWire[l] = <<ListenerResponsePacket(0, TRUE)>>
            /\ aPc[l] = "none"
            /\ \A id \in DOMAIN listenerMap : listenerMap[id] # l
            /\ \A id \in DOMAIN listenerConntrack : listenerConntrack[id][1] # l)

(* an open fails while another listener is registered with a parked socket *)
C17_Witness ==
  \E l \in LisSess :
    /\ OpenFailed(l)
    /\ listenerMap # EmptyMap
    /\ listenerConntrack # EmptyMap
    /\ listenerID > 0

(* the callback for r returned at the nil-or-closed test *)
Dropped(r) == cbPc[r] \in {"unlock", "done"} /\ cbAdded[r] = NilPool

(* the step in which the callback for r evaluates the test *)
Checks(r) == cbPc[r] = "check" /\ cbPc'[r] # "check"

(* C15: a forwarder callback whose test finds the pool nil or closed goes  *)
(* straight to the unlock and changes neither a queue, nor a               *)
(* forwarder-request, nor the pool pointer; a callback that returned this  *)
(* way has added to no pool, its request is in no queue and not completed, *)
(* and once it is done it does not hold the NetStack lock.                 *)
C15_DropIsSilent ==
  /\ [][\A r \in Reqs :
          Checks(r) /\ (pool = NilPool \/ Closed(pool)) =>
            /\ cbPc'[r] = "unlock"
            /\ UNCHANGED <<pool, queue, completes, cbAdded, closed>>]_vars
  /\ [](\A r \in Reqs :
          Dropped(r) =>
            /\ ~InSomeQueue(r)
            /\ completes[r] = <<>>
            /\ cbPc[r] = "unlock" => mu = CbTask(r)
            /\ cbPc[r] = "done" => mu # CbTask(r))

(* one callback dropped its flow on a nil pool and another on a closed     *)
(* pool, and both have released the lock                                   *)
C15_Witness ==
  \E r1, r2 \in Reqs :
    /\ cbPc[r1] = "done" /\ Dropped(r1) /\ cbSeen[r1] = NilPool
    /\ cbPc[r2] = "done" /\ Dropped(r2) /\ cbSeen[r2] \in Pools
    /\ mu = NoHolder

(* the step is a call of Terminate *)
Terminates == tCalls' = tCalls + 1

C20_EveryCallCompletes ==
  /\ (mu # NoHolder) ~> (mu = NoHolder)
  /\ \A r \in Reqs : (cbPc[r] # "done") ~> (cbPc[r] = "done")
  /\ \A s \in Swappers : (swPc[s] # "done") ~> (swPc[s] = "done")

(* all callbacks and swaps have completed and the lock is free, one        *)
(* callback having dropped its flow and another having had its Add refused *)
(* by a pool closed after the test                                         *)
C20_Witness ==
  /\ \A r \in Reqs : cbPc[r] = "done"
  /\ \A s \in Swappers : swPc[s] = "done"
  /\ mu = NoHolder
  /\ \E r1, r2 \in Reqs :
       /\ Dropped(r1)
       /\ cbAdded[r2] # NilPool /\ ~cbAddOk[r2]
====
